---- MODULE Spec2Model ----
(***************************************************************************)
(* Model of siderophile's source trawler (src/trawl_source/mod.rs):        *)
(* the intercepted build (CustomExecutor::exec under cargo's job queue),   *)
(* the reconciliation of rustc dep-info files (resolve_rs_file_deps,       *)
(* parse_rustc_dep_info), the classification of package source files       *)
(* (find_rs_files_in_package), the scan (find_unsafe_in_packages) and the  *)
(* "never scanned" report of real_main.                                    *)
(*                                                                         *)
(* Text (paths, arguments, file contents) is a sequence of one-character   *)
(* strings, so that suffix tests, splitting and joining are computed.      *)
(***************************************************************************)
EXTENDS Integers, Sequences, FiniteSets, Bags, TLC

\* ------------------------------------------------------------------ bounds
\* Longest dep-info text drawn in SpecParse.
MaxLen == 6
\* Number of compiler invocations cargo issues in one build.
NumInv == 2
\* Most declared targets of the package drawn in SpecClassify.
MaxTargets == 2

\* ------------------------------------------------------------------- text
\* char::is_whitespace, on the characters the model uses.
IsWhitespace(c) == c \in {" ", "\t", "\n", "\r"}

\* str::ends_with
EndsWith(s, suf) ==
    /\ Len(s) >= Len(suf)
    /\ SubSeq(s, Len(s) - Len(suf) + 1, Len(s)) = suf

\* char::to_lowercase on the letters that occur in the model's arguments.
LowerChar(c) ==
    CASE c = "R" -> "r"
      [] c = "S" -> "s"
      [] c = "M" -> "m"
      [] OTHER -> c

\* str::to_lowercase
ToLowercase(s) == [k \in 1..Len(s) |-> LowerChar(s[k])]

\* str::find(": "): the first position of the pattern, 0 for None.
FindColonSpace(l) ==
    LET hits == {k \in 1..(Len(l) - 1) : l[k] = ":" /\ l[k + 1] = " "}
    IN  IF hits = {} THEN 0 ELSE CHOOSE k \in hits : \A h \in hits : k <= h

\* str::lines: split at "\n", a final empty piece is not a line, a trailing
\* "\r" of a line is dropped.
StripCR(l) == IF Len(l) > 0 /\ l[Len(l)] = "\r" THEN SubSeq(l, 1, Len(l) - 1) ELSE l

RECURSIVE Lines(_)
Lines(s) ==
    IF s = <<>> THEN <<>>
    ELSE LET nl == {k \in 1..Len(s) : s[k] = "\n"}
         IN  IF nl = {} THEN <<StripCR(s)>>
             ELSE LET k == CHOOSE x \in nl : \A y \in nl : x <= y
                  IN  <<StripCR(SubSeq(s, 1, k - 1))>> \o Lines(SubSeq(s, k + 1, Len(s)))

\* str::split_whitespace: the maximal runs of non-whitespace characters.
RECURSIVE SplitWhitespace(_)
SplitWhitespace(s) ==
    LET starts == {k \in 1..Len(s) : ~IsWhitespace(s[k])}
    IN  IF starts = {} THEN <<>>
        ELSE LET b == CHOOSE x \in starts : \A y \in starts : x <= y
                 ws == {k \in b..Len(s) : IsWhitespace(s[k])}
                 e == IF ws = {} THEN Len(s) + 1
                      ELSE CHOOSE x \in ws : \A y \in ws : x <= y
             IN  <<SubSeq(s, b, e - 1)>> \o SplitWhitespace(SubSeq(s, e, Len(s)))

\* ---------------------------------------------------- parse_rustc_dep_info
\* A result is [tag |-> "Ok", val |-> v], [tag |-> "Err"] or, for a panic that
\* unwinds out of the function, [tag |-> "Panic"].
Ok(v) == [tag |-> "Ok", val |-> v]
Err(e) == [tag |-> "Err", val |-> e]
Panic(m) == [tag |-> "Panic", val |-> m]

\* The inner loop `while file.ends_with('\\')`: pop the backslash, push a
\* space, push the next token; .expect panics when there is no next token.
\* Yields the finished file and the index of the next unread token.
JoinDropsSpace(file) == SubSeq(file, 1, Len(file) - 1)

JoinContinuation(file) == SubSeq(file, 1, Len(file) - 1) \o <<" ">>

RECURSIVE Continue(_, _, _)
Continue(toks, j, file) ==
    IF ~EndsWith(file, <<"\\">>) THEN Ok([file |-> file, next |-> j])
    ELSE IF j > Len(toks) THEN Panic("malformed dep-info format, trailing \\")
    ELSE Continue(toks, j + 1, JoinContinuation(file) \o toks[j])

\* The outer loop `while let Some(s) = deps.next()`.
RECURSIVE ParseDeps(_, _, _)
ParseDeps(toks, j, ret) ==
    IF j > Len(toks) THEN Ok(ret)
    ELSE LET r == Continue(toks, j + 1, toks[j])
         IN  IF r.tag = "Panic" THEN r
             ELSE ParseDeps(toks, r.val.next, Append(ret, r.val.file))

\* The closure mapped over one line that holds ": " at pos.
ParseLine(line, pos) ==
    LET target == SubSeq(line, 1, pos - 1)
        deps == SplitWhitespace(SubSeq(line, pos + 2, Len(line)))
        r == ParseDeps(deps, 1, <<>>)
    IN  IF r.tag = "Panic" THEN r ELSE Ok(<<target, r.val>>)

\* .lines().filter_map(find ": ").map(closure).collect(): the lines are
\* parsed in order, a panic in one ends the whole call.
RECURSIVE CollectLines(_, _, _)
CollectLines(ls, k, acc) ==
    IF k > Len(ls) THEN Ok(acc)
    ELSE LET pos == FindColonSpace(ls[k])
         IN  IF pos = 0 THEN CollectLines(ls, k + 1, acc)
             ELSE LET r == ParseLine(ls[k], pos)
                  IN  IF r.tag = "Panic" THEN r
                      ELSE CollectLines(ls, k + 1, Append(acc, r.val))

\* The file a dep-info path names: [readable, text]. paths::read fails on a
\* file that cannot be read as UTF-8 text.
ParseRustcDepInfo(file) ==
    IF ~file.readable THEN Err("read")
    ELSE CollectLines(Lines(file.text), 1, <<>>)

\* ------------------------------------------------------------ file system
\* Path::join: an absolute argument replaces the base.
PathJoin(base, p) ==
    IF Len(p) > 0 /\ p[1] = "/" THEN p ELSE base \o <<"/">> \o p

\* Whether path p is dir itself or lies below it.
IsUnder(p, dir) ==
    /\ Len(p) >= Len(dir)
    /\ SubSeq(p, 1, Len(dir)) = dir
    /\ (Len(p) = Len(dir) \/ p[Len(dir) + 1] = "/")

\* Path::extension: the text after the last "." of the file name, <<>> (None)
\* when the name has no "." or only a leading one.
Extension(p) ==
    LET slashes == {k \in 1..Len(p) : p[k] = "/"}
        b == IF slashes = {} THEN 1
             ELSE 1 + CHOOSE x \in slashes : \A y \in slashes : x >= y
        dots == {k \in (b + 1)..Len(p) : p[k] = "."}
    IN  IF dots = {} THEN <<>>
        ELSE SubSeq(p, 1 + CHOOSE x \in dots : \A y \in dots : x >= y, Len(p))

P_W == <<"/", "w">>
P_D == <<"/", "d">>
A_RS == <<"a", ".", "r", "s">>
B_RS == <<"b", ".", "r", "s">>
B_RS_UPPER == <<"B", ".", "R", "S">>
C_RS == <<"c", ".", "r", "s">>
E_RS == <<"e", ".", "r", "s">>
G_RS == <<"g", ".", "r", "s">>
H_RS == <<"h", ".", "r", "s">>
K_RS == <<"k", ".", "r", "s">>
L_RS == <<"l", ".", "r", "s">>
U_RS == <<"u", ".", "r", "s">>
T1 == <<"/", "t", "1">>
T2 == <<"/", "t", "2">>
T3 == <<"/", "t", "3">>
O_RS == <<"/", "t", "o", ".", "r", "s">>

\* The regular files on disk below the package roots, by canonical path: the
\* workspace package at /w (a.rs, b.rs, the module u.rs, the example e.rs that
\* the build does not compile, a manifest) and its dependency at /d (c.rs,
\* h.rs); /t/o.rs is a generated source file outside every package.
Files ==
    {PathJoin(P_W, A_RS), PathJoin(P_W, B_RS), PathJoin(P_W, U_RS),
     PathJoin(P_W, E_RS), PathJoin(P_W, <<"m", ".", "t">>),
     PathJoin(P_D, C_RS), PathJoin(P_D, H_RS), O_RS}

\* Symbolic links: /w/B.RS -> /w/b.rs, /w/l.rs -> /w/a.rs, /d/k.rs -> /d/c.rs.
LinkTarget(p) ==
    CASE p = PathJoin(P_W, B_RS_UPPER) -> PathJoin(P_W, B_RS)
      [] p = PathJoin(P_W, L_RS) -> PathJoin(P_W, A_RS)
      [] p = PathJoin(P_D, K_RS) -> PathJoin(P_D, C_RS)
      [] OTHER -> p

\* Path::exists and Path::canonicalize (an error for a path that is not there).
PathExists(p) == LinkTarget(p) \in Files

Canonicalize(p) ==
    IF PathExists(p) THEN Ok(LinkTarget(p)) ELSE Err("io")

\* is_file_with_ext on a directory entry [path, kind, file].
IsFileWithExt(entry, file_ext) ==
    /\ entry.kind = "file"
    /\ Extension(entry.path) # <<>>
    /\ Extension(entry.path) = file_ext

\* HashMap::insert: the value of a key already present is replaced.
MapInsertCounting(m, k, v) ==
    [x \in DOMAIN m \cup {k} |->
        IF x = k THEN (IF k \in DOMAIN m THEN m[k] + 1 ELSE v) ELSE m[x]]

MapInsert(m, k, v) == [x \in DOMAIN m \cup {k} |-> IF x = k THEN v ELSE m[x]]

EmptyMap == [x \in {} |-> 0]

\* HashSet::insert
SetReplace(set, x) == {x}

SetInsert(set, x) == set \cup {x}

\* ----------------------------------------------------------------- build
\* One compiler invocation cargo hands to Executor::exec: the command's
\* working directory (<<>> when the command sets none), its arguments, and the
\* dep-info file (name stem, content) the real compiler writes into the
\* output directory.
OutDirKey == <<"-", "-", "o", "u", "t", "-", "d", "i", "r">>
NoCwd == <<>>
ProductPrefix == <<"o", ":", " ">>

Cmd(cwd, args, stem, readable, text) ==
    [cwd |-> cwd, args |-> args, stem |-> stem,
     dep |-> [readable |-> readable, text |-> text]]

Units ==
    << \* 1-3: well-formed invocations with distinct sources and output dirs
       Cmd(NoCwd, <<A_RS, OutDirKey, T1>>, "1", TRUE,
           ProductPrefix \o A_RS \o <<" ">> \o U_RS \o <<"\n">>),
       Cmd(P_D, <<C_RS, OutDirKey, T2>>, "2", TRUE,
           ProductPrefix \o PathJoin(P_D, C_RS) \o <<" ">> \o O_RS),
       Cmd(P_W, <<OutDirKey, T3, B_RS_UPPER>>, "3", TRUE,
           ProductPrefix \o B_RS \o <<" ", " ">> \o A_RS),
       \* 4: the second source argument cannot be canonicalized
       Cmd(P_W, <<A_RS, G_RS, OutDirKey, T1>>, "4", TRUE, ProductPrefix \o A_RS),
       \* 5: no --out-dir argument; 6: --out-dir is the last argument
       Cmd(P_W, <<A_RS>>, "5", TRUE, ProductPrefix \o A_RS),
       Cmd(P_W, <<A_RS, OutDirKey>>, "6", TRUE, ProductPrefix \o A_RS),
       \* 7: dep-info whose last input token ends in a backslash
       Cmd(P_W, <<B_RS, OutDirKey, T3>>, "7", TRUE,
           ProductPrefix \o B_RS \o <<" ">> \o A_RS \o <<"\\">>),
       \* 8: dep-info naming a file that is not on disk
       Cmd(P_W, <<B_RS, OutDirKey, T3>>, "8", TRUE, ProductPrefix \o G_RS),
       \* 9: dep-info that cannot be read as text
       Cmd(P_W, <<B_RS, OutDirKey, T2>>, "9", FALSE, <<>>) >>

Inv == 1..NumInv

VARIABLES
    unit,        \* invocation -> index into Units
    jobs,        \* opt.build_config.jobs
    pc,          \* invocation -> its position in exec
    ai,          \* invocation -> index into its source-suffixed arguments
    lock,        \* holder of the inner_ctx mutex, 0 when free
    ctx,         \* CustomExecutorInnerContext: rs_file_args, out_dir_args
    exec_refs,   \* holders of the Arc<dyn Executor>, 0 is resolve_rs_file_deps
    disk,        \* entries under the output directories
    mpc,         \* position of the main thread
    resolved,    \* what resolve_rs_file_deps returned
    walk_dirs,   \* output directories still to walk
    walk_ents,   \* entries of the current output directory still to visit
    parsed,      \* the dep-info files parsed so far, each with the parser's result
    hm,          \* the path -> count map
    rs_files,    \* rs_file_args still to merge into hm
    allow_partial_results,
    bad_src,     \* source files the parser capability rejects
    packs_left,  \* packages not yet classified
    queue,       \* classified records of the current package, not yet scanned
    cur_pack,    \* the package the queue belongs to
    sink,        \* out_file: the Findings written, in order
    parse_warns, \* "Failed to parse file" warnings, in order
    never_warns, \* "Dependency file was never scanned" warnings, a bag of paths
    outcome      \* of real_main / find_unsafe_in_packages

vars ==
    <<unit, jobs, pc, ai, lock, ctx, exec_refs, disk, mpc, resolved, walk_dirs,
      walk_ents, parsed, hm, rs_files, allow_partial_results, bad_src,
      packs_left, queue, cur_pack, sink, parse_warns, never_warns, outcome>>

buildVars == <<pc, ai, lock, ctx, exec_refs, disk>>
walkVars == <<walk_dirs, walk_ents, parsed, hm, rs_files>>
scanVars == <<packs_left, queue, cur_pack, sink, parse_warns>>
inputVars == <<unit, jobs, allow_partial_results, bad_src>>

Args(i) == Units[unit[i]].args

\* args.iter().position(|s| *s == out_dir_key): 0 for None.
OutDirKeyIdx(args) ==
    LET hits == {k \in 1..Len(args) : args[k] = OutDirKey}
    IN  IF hits = {} THEN 0 ELSE CHOOSE k \in hits : \A h \in hits : k <= h

\* The two ok_or_else checks that precede the critical section.
OutDirArgOrDefault(args) ==
    LET idx == OutDirKeyIdx(args)
    IN  IF idx = 0 \/ idx + 1 > Len(args) THEN Ok(<<>>) ELSE Ok(args[idx + 1])

OutDirArg(args) ==
    LET idx == OutDirKeyIdx(args)
    IN  IF idx = 0 THEN Err("OutDirKeyMissing")
        ELSE IF idx + 1 > Len(args) THEN Err("OutDirValueMissing")
        ELSE Ok(args[idx + 1])

\* cmd.get_cwd().unwrap_or_else(|| self.cwd), self.cwd being config.cwd().
CmdCwd(i) == IF Units[unit[i]].cwd = NoCwd THEN P_W ELSE Units[unit[i]].cwd

\* The filter of the loop: arguments whose lowercased text ends with ".rs".
IsRsArg(s) == EndsWith(ToLowercase(s), <<".", "r", "s">>)

RsArgs(i) == SelectSeq(Args(i), IsRsArg)

InFlight == {i \in Inv : pc[i] \in {"lock", "crit", "exec"}}

\* cargo's job queue calls exec for a queued unit while no unit has failed and
\* fewer than `jobs` are running; exec first looks for the output directory.
\* The job holds a clone of the executor for as long as it runs.
ExecStart(i) ==
    /\ mpc = "compile"
    /\ pc[i] = "queued"
    /\ \A j \in Inv : pc[j] # "failed"
    /\ Cardinality(InFlight) < jobs
    /\ IF OutDirArg(Args(i)).tag = "Ok"
       THEN /\ pc' = [pc EXCEPT ![i] = "lock"]
            /\ exec_refs' = exec_refs \cup {i}
       ELSE /\ pc' = [pc EXCEPT ![i] = "failed"]
            /\ UNCHANGED exec_refs
    /\ UNCHANGED <<ai, lock, ctx, disk, mpc, resolved, outcome>>
    /\ UNCHANGED <<walkVars, scanVars, inputVars, never_warns>>

\* self.inner_ctx.lock(): nothing panics while the guard is held, so the
\* mutex is never poisoned.
LockIgnored(i) == TRUE

LockFree(i) == lock = 0

ExecLock(i) ==
    /\ pc[i] = "lock"
    /\ LockFree(i)
    /\ lock' = i
    /\ pc' = [pc EXCEPT ![i] = "crit"]
    /\ ai' = [ai EXCEPT ![i] = 1]
    /\ UNCHANGED <<ctx, exec_refs, disk, mpc, resolved, outcome>>
    /\ UNCHANGED <<walkVars, scanVars, inputVars, never_warns>>

\* The guard goes out of scope (end of the block, or a `?` return inside it):
\* the mutex is released by the invocation that holds it.
ReleaseKept(l, i) == l

Release(l, i) == IF l = i THEN 0 ELSE l

\* One turn of the loop over the source-suffixed arguments: a path that cannot
\* be canonicalized returns the error (dropping the guard), the others are
\* inserted into rs_file_args.
ExecRecordArg(i) ==
    /\ pc[i] = "crit"
    /\ ai[i] <= Len(RsArgs(i))
    /\ LET p == Canonicalize(PathJoin(CmdCwd(i), RsArgs(i)[ai[i]]))
       IN  IF p.tag = "Ok"
           THEN /\ ctx' = [ctx EXCEPT !.rs_file_args = SetInsert(@, p.val)]
                /\ ai' = [ai EXCEPT ![i] = @ + 1]
                /\ UNCHANGED <<pc, lock, exec_refs>>
           ELSE /\ pc' = [pc EXCEPT ![i] = "failed"]
                /\ lock' = Release(lock, i)
                /\ exec_refs' = exec_refs \ {i}
                /\ UNCHANGED <<ctx, ai>>
    /\ UNCHANGED <<disk, mpc, resolved, outcome>>
    /\ UNCHANGED <<walkVars, scanVars, inputVars, never_warns>>

\* After the loop: ctx.out_dir_args.insert(out_dir), and the scope ends,
\* releasing the mutex before the compiler is called.
ExecRecordOutDir(i) ==
    /\ pc[i] = "crit"
    /\ ai[i] > Len(RsArgs(i))
    /\ ctx' = [ctx EXCEPT !.out_dir_args = SetInsert(@, OutDirArg(Args(i)).val)]
    /\ lock' = Release(lock, i)
    /\ pc' = [pc EXCEPT ![i] = "exec"]
    /\ UNCHANGED <<ai, exec_refs, disk, mpc, resolved, outcome>>
    /\ UNCHANGED <<walkVars, scanVars, inputVars, never_warns>>

\* What the real compiler leaves in its output directory: the directory
\* itself, an .rmeta artifact and the .d dep-info file.
CompilerOutput(i) ==
    LET d == OutDirArg(Args(i)).val
        stem == Units[unit[i]].stem
        none == [readable |-> TRUE, text |-> <<>>]
    IN  {[path |-> d, kind |-> "dir", file |-> none],
         [path |-> PathJoin(d, <<stem, ".", "r", "m">>), kind |-> "file", file |-> none],
         [path |-> PathJoin(d, <<stem, ".", "d">>), kind |-> "file",
          file |-> Units[unit[i]].dep]}

\* cmd.exec()?: the real compiler runs; it may fail (a compile error).
ExecCmd(i) ==
    /\ pc[i] = "exec"
    /\ \E ok \in BOOLEAN :
         IF ok
         THEN /\ disk' = disk \cup CompilerOutput(i)
              /\ pc' = [pc EXCEPT ![i] = "done"]
         ELSE /\ pc' = [pc EXCEPT ![i] = "failed"]
              /\ UNCHANGED disk
    /\ exec_refs' = exec_refs \ {i}
    /\ UNCHANGED <<ai, lock, ctx, mpc, resolved, outcome>>
    /\ UNCHANGED <<walkVars, scanVars, inputVars, never_warns>>

\* -------------------------------------------------- resolve_rs_file_deps
\* The order of the stages in resolve_rs_file_deps and real_main: the walk of
\* the output directories, the merge of rs_file_args, the scan, the report.
PhaseAfterScanFirst(phase) ==
    CASE phase = "walk" -> "scan"
      [] phase = "scan" -> "merge"
      [] phase = "merge" -> "report"

PhaseAfter(phase) ==
    CASE phase = "walk" -> "merge"
      [] phase = "merge" -> "scan"
      [] phase = "scan" -> "report"

Pending == [tag |-> "Pending", val |-> "none"]

\* `?` in resolve_rs_file_deps returns the error to real_main, whose
\* .unwrap() panics on it.
ReturnErr(e) ==
    /\ resolved' = Err(e)
    /\ mpc' = "done"
    /\ outcome' = "panic"

\* cargo::ops::clean, then the accumulator and the executor are created.
Clean ==
    /\ mpc = "clean"
    /\ \E ok \in BOOLEAN :
         IF ok
         THEN /\ mpc' = "compile"
              /\ exec_refs' = {0}
              /\ disk' = {}
              /\ UNCHANGED <<resolved, outcome>>
         ELSE /\ ReturnErr([kind |-> "Cargo"])
              /\ UNCHANGED <<exec_refs, disk>>
    /\ UNCHANGED <<pc, ai, lock, ctx>>
    /\ UNCHANGED <<walkVars, scanVars, inputVars, never_warns>>

\* The executor is handed to cargo as an Arc<dyn Executor>; a clone that cargo
\* has not dropped when compile_with_exec returns keeps inner_ctx shared.
CargoHandle == NumInv + 1

\* compile_with_exec returns once no job is running: Ok when every unit was
\* compiled, the error of a failed unit otherwise (queued units are dropped).
\* The block then ends, dropping resolve_rs_file_deps' own executor handle.
CompileReturn ==
    /\ mpc = "compile"
    /\ InFlight = {}
    /\ \/ \A i \in Inv : pc[i] = "done"
       \/ \E i \in Inv : pc[i] = "failed"
    /\ IF \A i \in Inv : pc[i] = "done"
       THEN /\ mpc' = "unwrap"
            /\ \E kept \in BOOLEAN :
                 exec_refs' = (exec_refs \ {0}) \cup
                              (IF kept THEN {CargoHandle} ELSE {})
            /\ UNCHANGED <<resolved, outcome>>
       ELSE /\ ReturnErr([kind |-> "Cargo"])
            /\ exec_refs' = exec_refs \ {0}
    /\ UNCHANGED <<pc, ai, lock, ctx, disk>>
    /\ UNCHANGED <<walkVars, scanVars, inputVars, never_warns>>

\* Arc::try_unwrap fails while another handle to the accumulator is alive;
\* into_inner then takes rs_file_args and out_dir_args out of the mutex.
StillSharedIgnored(refs) == FALSE

StillShared(refs) == refs # {}

Unwrap ==
    /\ mpc = "unwrap"
    /\ IF StillShared(exec_refs)
       THEN /\ ReturnErr([kind |-> "ArcUnwrap"])
            /\ UNCHANGED walkVars
       ELSE /\ mpc' = "walk"
            /\ walk_dirs' = ctx.out_dir_args
            /\ rs_files' = ctx.rs_file_args
            /\ hm' = EmptyMap
            /\ UNCHANGED <<walk_ents, parsed, resolved, outcome>>
    /\ UNCHANGED <<buildVars, scanVars, inputVars, never_warns>>

\* `for out_dir in out_dir_args`: the next output directory, in the set's
\* iteration order; WalkDir yields the directory and everything below it, or
\* an error when the directory is not there.
WalkNextDir ==
    /\ mpc = "walk"
    /\ walk_ents = {}
    /\ \E d \in walk_dirs :
         LET ents == {e \in disk : IsUnder(e.path, d)}
         IN  IF ents = {}
             THEN /\ ReturnErr([kind |-> "Walkdir"])
                  /\ UNCHANGED <<walk_dirs, walk_ents>>
             ELSE /\ walk_dirs' = walk_dirs \ {d}
                  /\ walk_ents' = ents
                  /\ UNCHANGED <<mpc, resolved, outcome>>
    /\ UNCHANGED <<parsed, hm, rs_files>>
    /\ UNCHANGED <<buildVars, scanVars, inputVars, never_warns>>

\* deps.into_iter().flat_map(|t| t.1): the inputs of all lines, in order.
RECURSIVE FlatInputs(_)
FlatInputs(deps) ==
    IF deps = <<>> THEN <<>> ELSE deps[1][2] \o FlatInputs(Tail(deps))

\* `for p in canon_paths { hm.insert(p?, 0); }` over ws_root.join(input):
\* the first input that cannot be canonicalized ends the loop with its error.
RECURSIVE InsertInputs(_, _, _)
InsertInputs(m, inputs, k) ==
    IF k > Len(inputs) THEN Ok(m)
    ELSE LET pb == PathJoin(P_W, inputs[k])
             c == Canonicalize(pb)
         IN  IF c.tag = "Err" THEN Err([kind |-> "Io", path |-> pb])
             ELSE InsertInputs(MapInsert(m, c.val, 0), inputs, k + 1)

\* One entry of the walk: skipped unless it is a .d file, else parsed and its
\* inputs inserted with count 0.
WalkEntry ==
    /\ mpc = "walk"
    /\ \E ent \in walk_ents :
         /\ walk_ents' = walk_ents \ {ent}
         /\ IF ~IsFileWithExt(ent, <<"d">>)
            THEN UNCHANGED <<parsed, hm, mpc, resolved, outcome>>
            ELSE LET deps == ParseRustcDepInfo(ent.file)
                     ins == InsertInputs(hm, FlatInputs(deps.val), 1)
                 IN  /\ parsed' = parsed \cup {[path |-> ent.path, res |-> deps]}
                     /\ CASE deps.tag = "Panic" ->
                               /\ mpc' = "done"
                               /\ outcome' = "panic"
                               /\ UNCHANGED <<hm, resolved>>
                          [] deps.tag = "Err" ->
                               /\ ReturnErr([kind |-> "DepParse", path |-> ent.path])
                               /\ UNCHANGED hm
                          [] deps.tag = "Ok" /\ ins.tag = "Err" ->
                               /\ ReturnErr(ins.val)
                               /\ UNCHANGED hm
                          [] OTHER ->
                               /\ hm' = ins.val
                               /\ UNCHANGED <<mpc, resolved, outcome>>
    /\ UNCHANGED <<walk_dirs, rs_files>>
    /\ UNCHANGED <<buildVars, scanVars, inputVars, never_warns>>

WalkDone ==
    /\ mpc = "walk"
    /\ walk_dirs = {}
    /\ walk_ents = {}
    /\ mpc' = PhaseAfter("walk")
    /\ UNCHANGED <<resolved, outcome, walkVars>>
    /\ UNCHANGED <<buildVars, scanVars, inputVars, never_warns>>

\* `for pb in rs_files { hm.insert(pb, 0); }`
MergeRsFile ==
    /\ mpc = "merge"
    /\ \E pb \in rs_files :
         /\ hm' = MapInsert(hm, pb, 0)
         /\ rs_files' = rs_files \ {pb}
    /\ UNCHANGED <<mpc, resolved, outcome, walk_dirs, walk_ents, parsed>>
    /\ UNCHANGED <<buildVars, scanVars, inputVars, never_warns>>

\* ------------------------------------------------- find_rs_files_in_package
\* A package: its name, root directory and declared targets, each a kind and
\* a source path (<<>> for a target without one).
NoSrcPath == <<>>
TargetKinds == {"Lib", "Bin", "Test", "Bench", "ExampleLib", "ExampleBin", "CustomBuild"}

Target(kind, path) == [kind |-> kind, src_path |-> path]

PackW ==
    [name |-> <<"w", "-", "x">>, root |-> P_W,
     targets |-> <<Target("Lib", PathJoin(P_W, A_RS)),
                   Target("Bin", PathJoin(P_W, L_RS)),
                   Target("Bin", PathJoin(P_W, B_RS)),
                   Target("ExampleBin", PathJoin(P_W, E_RS)),
                   Target("Test", PathJoin(P_W, G_RS))>>]

PackD ==
    [name |-> <<"d">>, root |-> P_D,
     targets |-> <<Target("Lib", PathJoin(P_D, C_RS))>>]

Packages == {PackW, PackD}

NoPack == [name |-> <<>>, root |-> <<>>, targets |-> <<>>]

\* find_rs_files_in_dir: the canonical paths of the regular files below dir
\* whose extension is "rs" (the walk does not follow symbolic links).
FindRsFilesInDir(dir) ==
    {f \in Files : IsUnder(f, dir) /\ IsFileWithExt([path |-> f, kind |-> "file"], <<"r", "s">>)}

IntoRsCodeFile(kind, path) ==
    CASE kind = "Lib" -> [kind |-> "LibRoot", path |-> path]
      [] kind = "Bin" -> [kind |-> "BinRoot", path |-> path]
      [] kind = "CustomBuild" -> [kind |-> "CustomBuildRoot", path |-> path]
      [] OTHER -> [kind |-> "Other", path |-> path]

\* The first loop: canon_targets, canonical entry path -> its targets, in
\* declaration order; targets without a path or whose path is not on disk are
\* skipped.
RECURSIVE CanonTargets(_, _, _)
CanonTargets(targets, k, m) ==
    IF k > Len(targets) THEN m
    ELSE LET path == targets[k].src_path
         IN  IF path = NoSrcPath \/ ~PathExists(path)
             THEN CanonTargets(targets, k + 1, m)
             ELSE LET canon == Canonicalize(path).val
                      before == IF canon \in DOMAIN m THEN m[canon] ELSE <<>>
                  IN  CanonTargets(targets, k + 1,
                                   MapInsert(m, canon, Append(before, targets[k])))

\* All orders in which a set can be iterated.
RECURSIVE Perms(_)
Perms(S) ==
    IF S = {} THEN {<<>>}
    ELSE UNION {{<<x>> \o q : q \in Perms(S \ {x})} : x \in S}

\* The third loop, for one order of the map's keys: every target of every key.
TargetsOfKeyFirstOnly(m, k) == <<IntoRsCodeFile(m[k][1].kind, k)>>

TargetsOfKey(m, k) == [n \in 1..Len(m[k]) |-> IntoRsCodeFile(m[k][n].kind, k)]

RECURSIVE TargetRecords(_, _)
TargetRecords(m, keys) ==
    IF keys = <<>> THEN <<>>
    ELSE TargetsOfKey(m, keys[1]) \o TargetRecords(m, Tail(keys))

\* find_rs_files_in_package: the vectors it can return, one per iteration
\* order of the directory walk and of the canon_targets map.
FindRsFilesInPackage(pack) ==
    LET canon_targets == CanonTargets(pack.targets, 1, EmptyMap)
        others == FindRsFilesInDir(pack.root) \ DOMAIN canon_targets
    IN  {[n \in 1..Len(po) |-> [kind |-> "Other", path |-> po[n]]]
            \o TargetRecords(canon_targets, pk) :
         po \in Perms(others), pk \in Perms(DOMAIN canon_targets)}

\* ------------------------------------------------- find_unsafe_in_packages
\* str::replace("-", "_")
CrateName(name) == [k \in 1..Len(name) |-> IF name[k] = "-" THEN "_" ELSE name[k]]

\* The unsafe items the syntax walker reports for a file that parses.
UnsafeItemsOf(p) ==
    CASE p = PathJoin(P_W, A_RS) -> <<"fn", "block">>
      [] p = PathJoin(P_W, U_RS) -> <<"impl">>
      [] p = PathJoin(P_W, E_RS) -> <<"block">>
      [] p = PathJoin(P_D, H_RS) -> <<"trait">>
      [] OTHER -> <<>>

\* ast_walker::find_unsafe_in_file: Err for a file the parser rejects.
FindUnsafeInFile(crate_name, p) ==
    IF p \in bad_src THEN Err("parse")
    ELSE Ok([n \in 1..Len(UnsafeItemsOf(p)) |->
               [crate |-> crate_name, path |-> p, item |-> UnsafeItemsOf(p)[n]]])

BadSrcChoices == SUBSET {PathJoin(P_W, A_RS), PathJoin(P_W, U_RS)}

\* resolve_rs_file_deps returns Ok(hm); real_main opens the output file and
\* calls find_unsafe_in_packages with the packages it resolved at its start.
\* Which files the parser capability rejects is fixed here.
MergeDone ==
    /\ mpc = "merge"
    /\ rs_files = {}
    /\ resolved' = Ok(hm)
    /\ mpc' = PhaseAfter("merge")
    /\ \E b \in BadSrcChoices : bad_src' = b
    /\ UNCHANGED <<outcome, walkVars, scanVars>>
    /\ UNCHANGED <<buildVars, unit, jobs, allow_partial_results, never_warns>>

\* The flat_map over the packages: when the records of one package are used
\* up, the next package is classified.
ClassifyNext ==
    /\ mpc = "scan"
    /\ queue = <<>>
    /\ \E pack \in packs_left :
         /\ packs_left' = packs_left \ {pack}
         /\ cur_pack' = pack
         /\ \E out \in FindRsFilesInPackage(pack) : queue' = out
    /\ UNCHANGED <<sink, parse_warns, mpc, resolved, outcome>>
    /\ UNCHANGED <<buildVars, walkVars, inputVars, never_warns>>

\* rs_files_used.get_mut(p).map(|c| *c += 1)
BumpSkipped(m, p) == m

BumpOnce(m, p) == IF p \in DOMAIN m THEN [m EXCEPT ![p] = 1] ELSE m

Bump(m, p) == IF p \in DOMAIN m THEN [m EXCEPT ![p] = @ + 1] ELSE m

\* `match allow_partial_results`: warn and continue, or panic.
ParseErrorAlwaysFatal(allow) == TRUE

ParseErrorIsFatal(allow) == ~allow

\* One turn of the loop over the classified files.
ScanFile ==
    /\ mpc = "scan"
    /\ queue # <<>>
    /\ LET p == Head(queue).path
           r == FindUnsafeInFile(CrateName(cur_pack.name), p)
       IN  /\ hm' = Bump(hm, p)
           /\ queue' = Tail(queue)
           /\ CASE r.tag = "Ok" ->
                     /\ sink' = sink \o r.val
                     /\ UNCHANGED <<parse_warns, mpc, outcome>>
                [] r.tag = "Err" /\ ~ParseErrorIsFatal(allow_partial_results) ->
                     /\ parse_warns' = Append(parse_warns, p)
                     /\ UNCHANGED <<sink, mpc, outcome>>
                [] OTHER ->
                     /\ mpc' = "done"
                     /\ outcome' = "panic"
                     /\ UNCHANGED <<sink, parse_warns>>
    /\ UNCHANGED <<packs_left, cur_pack, resolved>>
    /\ UNCHANGED <<buildVars, walk_dirs, walk_ents, parsed, rs_files, inputVars, never_warns>>

\* The loop ends: find_unsafe_in_packages returns the map.
ScanDone ==
    /\ mpc = "scan"
    /\ queue = <<>>
    /\ packs_left = {}
    /\ mpc' = PhaseAfter("scan")
    /\ UNCHANGED <<resolved, outcome>>
    /\ UNCHANGED <<buildVars, walkVars, scanVars, inputVars, never_warns>>

\* ------------------------------------------------------------- real_main
\* .iter().filter(|(_k, v)| **v == 0).for_each(warn): one warning per entry
\* that passes the filter.
NeverScannedLax(m) == SetToBag({k \in DOMAIN m : m[k] <= 1})

NeverScanned(m) == SetToBag({k \in DOMAIN m : m[k] = 0})

Report ==
    /\ mpc = "report"
    /\ never_warns' = NeverScanned(hm)
    /\ mpc' = "done"
    /\ outcome' = "ok"
    /\ UNCHANGED resolved
    /\ UNCHANGED <<buildVars, walkVars, scanVars, inputVars>>

\* --------------------------------------------------------- specifications
IdleBuild ==
    /\ pc = [i \in Inv |-> "queued"]
    /\ ai = [i \in Inv |-> 1]
    /\ lock = 0
    /\ ctx = [rs_file_args |-> {}, out_dir_args |-> {}]
    /\ exec_refs = {}
    /\ disk = {}

IdleWalk ==
    /\ walk_dirs = {}
    /\ walk_ents = {}
    /\ parsed = {}
    /\ rs_files = {}

IdleScan ==
    /\ queue = <<>>
    /\ cur_pack = NoPack
    /\ sink = <<>>
    /\ parse_warns = <<>>
    /\ never_warns = EmptyBag
    /\ outcome = "running"

\* real_main: any NumInv units (up to the order of the invocations), any job
\* count; partial results are always allowed.
Init ==
    /\ unit \in {u \in [Inv -> 1..Len(Units)] : \A i, j \in Inv : i < j => u[i] <= u[j]}
    /\ jobs \in 1..NumInv
    /\ IdleBuild
    /\ IdleWalk
    /\ IdleScan
    /\ mpc = "clean"
    /\ resolved = Pending
    /\ hm = EmptyMap
    /\ allow_partial_results = TRUE
    /\ bad_src = {}
    /\ packs_left = Packages

Next ==
    \/ \E i \in Inv : ExecStart(i)
    \/ \E i \in Inv : ExecLock(i)
    \/ \E i \in Inv : ExecRecordArg(i)
    \/ \E i \in Inv : ExecRecordOutDir(i)
    \/ \E i \in Inv : ExecCmd(i)
    \/ Clean
    \/ CompileReturn
    \/ Unwrap
    \/ WalkNextDir
    \/ WalkEntry
    \/ WalkDone
    \/ MergeRsFile
    \/ MergeDone
    \/ ClassifyNext
    \/ ScanFile
    \/ ScanDone
    \/ Report

Spec == Init /\ [][Next]_vars

\* find_unsafe_in_packages on its own: any map of zero counts over the files
\* on disk, either setting of allow_partial_results, any set of rejected files.
InitScan ==
    /\ unit = [i \in Inv |-> 1]
    /\ jobs = 1
    /\ IdleBuild
    /\ IdleWalk
    /\ IdleScan
    /\ mpc = "scan"
    /\ hm \in {[p \in keys |-> 0] : keys \in SUBSET {f \in Files : Extension(f) = <<"r", "s">>}}
    /\ resolved = Ok(hm)
    /\ allow_partial_results \in BOOLEAN
    /\ bad_src \in BadSrcChoices
    /\ packs_left = Packages

NextScan ==
    \/ ClassifyNext
    \/ ScanFile
    \/ ScanDone

SpecScan == InitScan /\ [][NextScan]_vars

\* find_rs_files_in_package on its own: a package at /d with up to MaxTargets
\* targets of any kind, at a file, a link to it, a missing file or no path.
SrcPathChoices ==
    {PathJoin(P_D, C_RS), PathJoin(P_D, K_RS), PathJoin(P_D, H_RS),
     PathJoin(P_D, G_RS), NoSrcPath}

TargetChoices == {Target(k, sp) : k \in TargetKinds, sp \in SrcPathChoices}

InitClassify ==
    /\ unit = [i \in Inv |-> 1]
    /\ jobs = 1
    /\ IdleBuild
    /\ IdleWalk
    /\ IdleScan
    /\ mpc = "scan"
    /\ hm = EmptyMap
    /\ resolved = Ok(hm)
    /\ allow_partial_results = TRUE
    /\ bad_src = {}
    /\ packs_left \in
         {{[name |-> <<"d">>, root |-> P_D, targets |-> ts]} :
          ts \in UNION {[1..n -> TargetChoices] : n \in 0..MaxTargets}}

NextClassify == ClassifyNext

SpecClassify == InitClassify /\ [][NextClassify]_vars

\* parse_rustc_dep_info on its own, as the walk calls it: one .d entry whose
\* text is any string of at most MaxLen characters, or that cannot be read.
TextChars == {"a", "\\", " ", ":", "\n"}

\* out/obj: a\ b.rs c.rs
ExampleText ==
    <<"o", "u", "t", "/", "o", "b", "j", ":", " ", "a", "\\", " ">> \o B_RS
        \o <<" ">> \o C_RS

InitParse ==
    /\ unit = [i \in Inv |-> 1]
    /\ jobs = 1
    /\ pc = [i \in Inv |-> "done"]
    /\ ai = [i \in Inv |-> 1]
    /\ lock = 0
    /\ ctx = [rs_file_args |-> {}, out_dir_args |-> {T1}]
    /\ exec_refs = {}
    /\ \E file \in {[readable |-> FALSE, text |-> <<>>],
                   [readable |-> TRUE, text |-> ExampleText]} \cup
                  {[readable |-> TRUE, text |-> t] :
                   t \in UNION {[1..n -> TextChars] : n \in 0..MaxLen}} :
         /\ disk = {[path |-> PathJoin(T1, <<"1", ".", "d">>), kind |-> "file", file |-> file]}
         /\ walk_ents = disk
    /\ walk_dirs = {}
    /\ parsed = {}
    /\ rs_files = {}
    /\ IdleScan
    /\ mpc = "walk"
    /\ hm = EmptyMap
    /\ resolved = Pending
    /\ allow_partial_results = TRUE
    /\ bad_src = {}
    /\ packs_left = {}

NextParse == WalkEntry

SpecParse == InitParse /\ [][NextParse]_vars

\* The reconciliation on its own, from the state Arc::try_unwrap leaves: the
\* recorded output directories are any of /t/1, /t/1/n (a directory below
\* /t/1, so that its listing file is met twice) and /t/2, each holding one
\* dep-info file.
N1 == PathJoin(T1, <<"n">>)

DepFiles ==
    {[readable |-> TRUE, text |-> ProductPrefix \o A_RS \o <<" ">> \o U_RS],
     [readable |-> TRUE,
      text |-> ProductPrefix \o U_RS \o <<"\n">> \o ProductPrefix \o A_RS],
     [readable |-> TRUE,
      text |-> ProductPrefix \o B_RS_UPPER \o <<" ">> \o PathJoin(P_D, C_RS)],
     [readable |-> TRUE, text |-> ProductPrefix \o G_RS],
     [readable |-> TRUE, text |-> <<>>],
     [readable |-> FALSE, text |-> <<>>]}

DirEntry(d) ==
    [path |-> d, kind |-> "dir", file |-> [readable |-> TRUE, text |-> <<>>]]

DepEntry(d, stem, file) ==
    [path |-> PathJoin(d, <<stem, ".", "d">>), kind |-> "file", file |-> file]

InitReconcile ==
    /\ unit = [i \in Inv |-> 1]
    /\ jobs = 1
    /\ pc = [i \in Inv |-> "done"]
    /\ ai = [i \in Inv |-> 1]
    /\ lock = 0
    /\ exec_refs = {}
    /\ \E dirs \in SUBSET {T1, N1, T2}, rs \in SUBSET {PathJoin(P_W, B_RS)} :
         /\ dirs # {}
         /\ ctx = [rs_file_args |-> rs, out_dir_args |-> dirs]
         /\ walk_dirs = dirs
         /\ rs_files = rs
    /\ \E f1, f2, f3 \in DepFiles :
         disk = {DirEntry(T1), DirEntry(N1), DirEntry(T2),
                 DepEntry(T1, "1", f1), DepEntry(N1, "2", f2), DepEntry(T2, "3", f3)}
    /\ walk_ents = {}
    /\ parsed = {}
    /\ IdleScan
    /\ mpc = "walk"
    /\ hm = EmptyMap
    /\ resolved = Pending
    /\ allow_partial_results = TRUE
    /\ bad_src = {}
    /\ packs_left = {}

NextReconcile ==
    \/ WalkNextDir
    \/ WalkEntry
    \/ WalkDone
    \/ MergeRsFile
    \/ MergeDone

SpecReconcile == InitReconcile /\ [][NextReconcile]_vars

\* ------------------------------------------------------------------ claims
\* The canonical source paths and the output directory invocation i records
\* when nothing fails, read off its arguments.
CanonRs(i) ==
    {Canonicalize(PathJoin(CmdCwd(i), RsArgs(i)[k])).val : k \in 1..Len(RsArgs(i))}

OutDirOf(i) == OutDirArg(Args(i)).val

\* An invocation whose interception succeeds.
Recordable(i) ==
    /\ OutDirArg(Args(i)).tag = "Ok"
    /\ \A k \in 1..Len(RsArgs(i)) :
         Canonicalize(PathJoin(CmdCwd(i), RsArgs(i)[k])).tag = "Ok"

\* C1: every Finding written to the output sink belongs to a file whose
\* canonical path is a key of the path -> count map; a source file below a
\* package root that is not a key of the map produces no Finding.
C1_FindingsOnlyFromBuiltFiles ==
    \A n \in 1..Len(sink) : sink[n].path \in DOMAIN hm

\* C2: no entry is lost. An invocation that has left its critical section has
\* all its source paths and its output directory in the accumulator; and once
\* NumInv invocations that each register one source path and one output
\* directory, distinct from the others', have all finished, rs_file_args holds
\* exactly those NumInv paths and out_dir_args exactly those NumInv directories.
DistinctInvocations ==
    /\ \A i \in Inv : Recordable(i) /\ Cardinality(CanonRs(i)) = 1
    /\ \A i, j \in Inv : i # j => CanonRs(i) \cap CanonRs(j) = {} /\ OutDirOf(i) # OutDirOf(j)

C2_NoLostEntry ==
    /\ \A i \in Inv : pc[i] \in {"exec", "done"} =>
         CanonRs(i) \subseteq ctx.rs_file_args /\ OutDirOf(i) \in ctx.out_dir_args
    /\ (DistinctInvocations /\ \A i \in Inv : pc[i] = "done") =>
         /\ ctx.rs_file_args = UNION {CanonRs(i) : i \in Inv}
         /\ Cardinality(ctx.rs_file_args) = NumInv
         /\ ctx.out_dir_args = {OutDirOf(i) : i \in Inv}
         /\ Cardinality(ctx.out_dir_args) = NumInv

C2_Witness ==
    /\ DistinctInvocations
    /\ jobs = NumInv
    /\ \A i \in Inv : pc[i] = "done"

\* C3: whenever an invocation acquires the accumulator lock, the accumulator
\* holds only whole invocation records: it is the union of the complete
\* records (all source paths and the output directory) of some of the other
\* invocations, also when the interception of one of them has failed.
JustLocked(h) == pc[h] = "crit" /\ lock = h /\ ai[h] = 1

C3_OnlyWholeRecords ==
    \A h \in Inv : JustLocked(h) =>
        \E S \in SUBSET {j \in Inv \ {h} : Recordable(j)} :
            /\ ctx.rs_file_args = UNION {CanonRs(j) : j \in S}
            /\ ctx.out_dir_args = {OutDirOf(j) : j \in S}

\* C4: the count of a path never decreases (and a path never leaves the map),
\* from interception through reconciliation to scanning: every insert with 0
\* happens while all counts are still 0.
C4_CountNeverDecreases ==
    [][\A p \in DOMAIN hm : p \in DOMAIN hm' /\ hm'[p] >= hm[p]]_vars

\* A path that both a dep-info file and rs_file_args inserted, counted later.
C4_Witness ==
    \E p \in DOMAIN hm :
        /\ hm[p] >= 1
        /\ p \in ctx.rs_file_args
        /\ \E e \in parsed :
             /\ e.res.tag = "Ok"
             /\ \E k \in 1..Len(FlatInputs(e.res.val)) :
                  Canonicalize(PathJoin(P_W, FlatInputs(e.res.val)[k])) = Ok(p)

\* C5: a dep-info file with a line whose last input token ends in a backslash
\* (or that cannot be read) makes resolve_rs_file_deps return
\* RsResolveError::DepParse naming that file, and nothing else happens.
MalformedLine(l) ==
    /\ FindColonSpace(l) # 0
    /\ LET toks == SplitWhitespace(SubSeq(l, FindColonSpace(l) + 2, Len(l)))
       IN  toks # <<>> /\ EndsWith(toks[Len(toks)], <<"\\">>)

MalformedFile(path) ==
    \E e \in disk :
        /\ e.path = path
        /\ \/ ~e.file.readable
           \/ \E k \in 1..Len(Lines(e.file.text)) : MalformedLine(Lines(e.file.text)[k])

C5_MalformedListingIsDepParse ==
    \A e \in parsed : MalformedFile(e.path) =>
        resolved = Err([kind |-> "DepParse", path |-> e.path])

\* C6: each line is split at the first ": "; in the input part every token
\* that ends with a backslash is re-joined with the next token, the backslash
\* replaced by one space; so the number of inputs of a line is the number of
\* tokens not preceded by a backslash-terminated token, and
\* `out/obj: a\ b.rs c.rs` parses to exactly `a b.rs` and `c.rs`. (A line
\* whose last token ends in a backslash yields no inputs at all: the parser
\* panics, and only then.)
TextOf(path) == (CHOOSE e \in disk : e.path = path).file.text

HasColonSpace(l) == FindColonSpace(l) # 0

DepLines(text) == SelectSeq(Lines(text), HasColonSpace)

InputTokens(l) == SplitWhitespace(SubSeq(l, FindColonSpace(l) + 2, Len(l)))

\* The tokens that are not preceded by a backslash-terminated token.
GroupStarts(toks) ==
    {k \in 1..Len(toks) : k = 1 \/ ~EndsWith(toks[k - 1], <<"\\">>)}

NthStart(toks, n) ==
    CHOOSE b \in GroupStarts(toks) : Cardinality({x \in GroupStarts(toks) : x <= b}) = n

GroupEnd(toks, n) ==
    IF n = Cardinality(GroupStarts(toks)) THEN Len(toks) ELSE NthStart(toks, n + 1) - 1

RECURSIVE Rejoin(_, _, _)
Rejoin(toks, a, b) ==
    IF a >= b THEN toks[a]
    ELSE SubSeq(toks[a], 1, Len(toks[a]) - 1) \o <<" ">> \o Rejoin(toks, a + 1, b)

ExampleInputs == << <<"a", " ">> \o B_RS, C_RS >>

C6_ContinuationParsing ==
    \A e \in parsed :
        LET text == TextOf(e.path)
            dl == DepLines(text)
        IN  /\ e.res.tag = "Panic" =>
                 \E n \in 1..Len(dl) : MalformedLine(dl[n])
            /\ e.res.tag = "Ok" =>
                 /\ Len(e.res.val) = Len(dl)
                 /\ \A n \in 1..Len(dl) :
                      LET toks == InputTokens(dl[n])
                          inputs == e.res.val[n][2]
                      IN  /\ e.res.val[n][1] = SubSeq(dl[n], 1, FindColonSpace(dl[n]) - 1)
                          /\ Len(inputs) = Cardinality(GroupStarts(toks))
                          /\ \A m \in 1..Len(inputs) :
                               inputs[m] = Rejoin(toks, NthStart(toks, m), GroupEnd(toks, m))
                 /\ text = ExampleText =>
                      e.res.val = << << <<"o", "u", "t", "/", "o", "b", "j">>, ExampleInputs >> >>

C6_Witness ==
    \E e \in parsed :
        /\ TextOf(e.path) = ExampleText
        /\ e.res.tag = "Ok"
        /\ e.res.val[1][2] = ExampleInputs

\* C7: find_rs_files_in_package emits one record per declared target whose
\* entry path exists, labelled with the target's kind, without deduplication
\* (k targets at one canonical path give k records), one Other record for
\* every walked source file that matches no target, and nothing for a target
\* whose entry path does not exist.
KindLabel(kind) ==
    CASE kind = "Lib" -> "LibRoot"
      [] kind = "Bin" -> "BinRoot"
      [] kind = "CustomBuild" -> "CustomBuildRoot"
      [] kind \in {"Test", "Bench", "ExampleLib", "ExampleBin"} -> "Other"

RecordLabels == {"LibRoot", "BinRoot", "CustomBuildRoot", "Other"}

\* The declared targets of pack with an existing entry path that is p.
TargetsAt(pack, p) ==
    {k \in 1..Len(pack.targets) :
        /\ pack.targets[k].src_path # NoSrcPath
        /\ PathExists(pack.targets[k].src_path)
        /\ LinkTarget(pack.targets[k].src_path) = p}

Emitted(out, label, p) ==
    Cardinality({n \in 1..Len(out) : out[n] = [kind |-> label, path |-> p]})

Classified == cur_pack # NoPack /\ Len(sink) = 0 /\ Len(parse_warns) = 0

C7_OneRecordPerTarget ==
    Classified =>
        /\ \A n \in 1..Len(queue) : queue[n].kind \in RecordLabels /\ queue[n].path \in Files
        /\ \A p \in Files : \A label \in RecordLabels :
             Emitted(queue, label, p) =
                 Cardinality({k \in TargetsAt(cur_pack, p) :
                                 KindLabel(cur_pack.targets[k].kind) = label})
                 + (IF /\ label = "Other"
                       /\ TargetsAt(cur_pack, p) = {}
                       /\ IsUnder(p, cur_pack.root)
                       /\ Extension(p) = <<"r", "s">>
                    THEN 1 ELSE 0)

\* A library target and a binary target (through a link) at one canonical path.
C7_Witness ==
    /\ Classified
    /\ cur_pack.targets = <<Target("Lib", PathJoin(P_D, C_RS)), Target("Bin", PathJoin(P_D, K_RS))>>
    /\ Emitted(queue, "LibRoot", PathJoin(P_D, C_RS)) = 1
    /\ Emitted(queue, "BinRoot", PathJoin(P_D, C_RS)) = 1
    /\ Emitted(queue, "Other", PathJoin(P_D, H_RS)) = 1
    /\ Len(queue) = 3

\* C8: after the scan and the report, every path of the map either has a
\* count >= 1 and no warning, or has count 0 and exactly one "never scanned"
\* warning; only paths of the map are warned about; and real_main returns
\* success whatever the number of zero-count paths.
Reported == mpc = "done" /\ resolved.tag = "Ok"

C8_WarningIffZeroCount ==
    Reported =>
        /\ \A p \in DOMAIN hm :
             \/ hm[p] >= 1 /\ CopiesIn(p, never_warns) = 0
             \/ hm[p] = 0 /\ CopiesIn(p, never_warns) = 1
        /\ BagToSet(never_warns) \subseteq DOMAIN hm
        /\ outcome = "ok"

\* A run with a file of the build that no package holds (/t/o.rs) beside
\* scanned files.
C8_Witness ==
    /\ Reported
    /\ outcome = "ok"
    /\ \E p \in DOMAIN hm : hm[p] = 0 /\ CopiesIn(p, never_warns) = 1
    /\ \E p \in DOMAIN hm : hm[p] = 1
    /\ \E p \in DOMAIN hm : hm[p] >= 2

\* C9: when a file fails to parse, with allow_partial_results the file yields
\* a warning and no Finding, the Findings already written stay as they are and
\* every remaining classified file is still scanned; without it the scan
\* aborts at that file, nothing is scanned afterwards, and the Findings of the
\* earlier files are in the sink.
ParseFails == mpc = "scan" /\ queue # <<>> /\ Head(queue).path \in bad_src

IsPrefix(a, b) == Len(a) <= Len(b) /\ SubSeq(b, 1, Len(a)) = a

AllItemsWritten(f) ==
    \A k \in 1..Len(UnsafeItemsOf(f)) :
        \E n \in 1..Len(sink) : sink[n].path = f /\ sink[n].item = UnsafeItemsOf(f)[k]

C9_ParseFailure ==
    /\ [][/\ IsPrefix(sink, sink')
          /\ ParseFails /\ allow_partial_results =>
               /\ sink' = sink
               /\ parse_warns' = Append(parse_warns, Head(queue).path)
               /\ queue' = Tail(queue)
               /\ mpc' = "scan"
               /\ outcome' = "running"
          /\ ParseFails /\ ~allow_partial_results =>
               /\ sink' = sink
               /\ mpc' = "done"
               /\ outcome' = "panic"
          /\ mpc = "scan" /\ queue # <<>> /\ ~ParseFails =>
               /\ Len(sink') = Len(sink) + Len(UnsafeItemsOf(Head(queue).path))
               /\ \A k \in 1..Len(UnsafeItemsOf(Head(queue).path)) :
                    /\ sink'[Len(sink) + k].path = Head(queue).path
                    /\ sink'[Len(sink) + k].item = UnsafeItemsOf(Head(queue).path)[k]
               /\ queue' = Tail(queue)
          /\ mpc = "done" => sink' = sink /\ hm' = hm /\ queue' = queue]_vars
    /\ [](allow_partial_results => outcome # "panic")
    /\ [](\A n \in 1..Len(sink) : sink[n].path \notin bad_src)
    /\ [](mpc = "report" =>
            \A pack \in Packages : \A f \in FindRsFilesInDir(pack.root) \ bad_src :
                AllItemsWritten(f))

\* Partial mode: a file failed, and a file scanned after it wrote its Findings.
C9_Witness ==
    /\ allow_partial_results
    /\ mpc = "report"
    /\ Len(parse_warns) >= 1
    /\ \E n \in 1..Len(sink) : sink[n].path = PathJoin(P_W, E_RS)
    /\ bad_src = {PathJoin(P_W, U_RS)}

\* C10: an invocation without --out-dir, with --out-dir as its last argument,
\* or with a source argument that cannot be canonicalized never reaches the
\* real compiler, is not retried, and the build aborts: resolve_rs_file_deps
\* returns an error, never a map, and neither reconciliation nor scanning
\* takes place.
NoOutDirKey(i) == \A k \in 1..Len(Args(i)) : Args(i)[k] # OutDirKey

NoOutDirValue(i) == ~NoOutDirKey(i) /\ OutDirKeyIdx(Args(i)) = Len(Args(i))

BadSourceArg(i) ==
    \E k \in 1..Len(Args(i)) :
        /\ IsRsArg(Args(i)[k])
        /\ ~PathExists(PathJoin(CmdCwd(i), Args(i)[k]))

BadInvocation(i) == NoOutDirKey(i) \/ NoOutDirValue(i) \/ BadSourceArg(i)

C10_BadInvocationAbortsBuild ==
    /\ [](\A i \in Inv : BadInvocation(i) =>
            /\ pc[i] \notin {"exec", "done"}
            /\ mpc \in {"clean", "compile", "done"}
            /\ resolved.tag # "Ok"
            /\ hm = EmptyMap
            /\ sink = <<>>
            /\ mpc = "done" => resolved = Err([kind |-> "Cargo"]) /\ outcome = "panic")
    /\ [][\A i \in Inv : pc[i] = "failed" => pc'[i] = "failed"]_vars

\* The build is aborted although another invocation was compiled.
C10_Witness ==
    /\ mpc = "done"
    /\ resolved = Err([kind |-> "Cargo"])
    /\ \E i, j \in Inv :
         /\ BadInvocation(i) /\ BadSourceArg(i) /\ pc[i] = "failed" /\ ai[i] = 2
         /\ pc[j] = "done"

\* C11: the phases follow one another in the order clean, build,
\* reconciliation, scanning, reporting; the walk of the output directories
\* never starts while an invocation is in flight or a handle to the
\* accumulator is alive (a shared accumulator gives the ArcUnwrap error), and
\* the accumulator is not mutated once the build has completed.
PhaseRank(phase) ==
    CASE phase = "clean" -> 0
      [] phase = "compile" -> 1
      [] phase = "unwrap" -> 2
      [] phase = "walk" -> 3
      [] phase = "merge" -> 4
      [] phase = "scan" -> 5
      [] phase = "report" -> 6
      [] phase = "done" -> 7

Reconciling == mpc \in {"walk", "merge", "scan", "report"}

C11_PhasesOrdered ==
    /\ [][/\ mpc' # mpc =>
               \/ PhaseRank(mpc') = PhaseRank(mpc) + 1
               \/ mpc' = "done" /\ outcome' = "panic"
          /\ mpc = "unwrap" /\ exec_refs # {} =>
               /\ resolved' = Err([kind |-> "ArcUnwrap"])
               /\ mpc' = "done"
               /\ hm' = hm /\ walk_dirs' = walk_dirs
          /\ mpc \notin {"clean", "compile"} =>
               ctx' = ctx /\ pc' = pc /\ disk' = disk /\ lock' = lock]_vars
    /\ [](Reconciling =>
            /\ InFlight = {}
            /\ \A i \in Inv : pc[i] = "done"
            /\ exec_refs = {}
            /\ lock = 0)
    /\ [](mpc \in {"clean", "compile", "unwrap"} =>
            /\ hm = EmptyMap /\ walk_ents = {} /\ walk_dirs = {}
            /\ sink = <<>> /\ never_warns = EmptyBag)
    /\ [](mpc \in {"clean", "compile", "unwrap", "walk", "merge"} =>
            sink = <<>> /\ \A p \in DOMAIN hm : hm[p] = 0)
    /\ [](mpc # "done" => never_warns = EmptyBag)

\* The walk has started after a build of two invocations.
C11_Witness ==
    /\ mpc = "walk"
    /\ walk_ents # {}
    /\ Cardinality(ctx.out_dir_args) = NumInv
    /\ \A i \in Inv : pc[i] = "done"

\* C12: the mutex is held only inside the block that records one invocation's
\* source paths and output directory: an invocation running its real compiler
\* command does not hold it, the holder is always an invocation inside that
\* block, only the holder changes the accumulator, and the facts of an
\* invocation are all recorded before its compiler command starts.
Recording(i) == pc[i] = "crit"

Compiling(i) == pc[i] = "exec"

C12_LockNotHeldAcrossCompile ==
    /\ [](\A i \in Inv :
            /\ Compiling(i) => lock # i
            /\ lock = i <=> Recording(i)
            /\ pc[i] \in {"exec", "done"} =>
                 /\ CanonRs(i) \subseteq ctx.rs_file_args
                 /\ OutDirOf(i) \in ctx.out_dir_args)
    /\ [][/\ ctx' # ctx => lock # 0 /\ Recording(lock)
          /\ \A i \in Inv :
               /\ Recording(i) /\ ~Recording(i)' => lock' = 0
               /\ Compiling(i)' /\ ~Compiling(i) => Recording(i) /\ lock = i
               /\ Compiling(i) => \A j \in Inv \ {i} :
                    (pc[j] = "lock" /\ lock = 0) => ENABLED ExecLock(j)]_vars

\* One invocation is running its compiler command while another one holds
\* the mutex and has recorded a source path.
C12_Witness ==
    \E i, j \in Inv :
        /\ Compiling(i)
        /\ Recording(j) /\ lock = j /\ ai[j] = 2
        /\ Cardinality(ctx.rs_file_args) = 2

\* C13: for fixed output directories and listing files the key set of the
\* map resolve_rs_file_deps returns is the set of canonical paths the listing
\* files name plus the recorded source arguments, whatever the order in which
\* directories, files, lines and tokens are visited; whether a map is
\* returned at all does not depend on that order either; and a listing file
\* met a second time adds no key and changes no count.
ListingFiles ==
    {e \in disk : IsFileWithExt(e, <<"d">>)
                  /\ \E d \in ctx.out_dir_args : IsUnder(e.path, d)}

ListedInputs(e) ==
    LET deps == ParseRustcDepInfo(e.file).val
    IN  UNION {{deps[l][2][k] : k \in 1..Len(deps[l][2])} : l \in 1..Len(deps)}

ListingIsSound(e) ==
    /\ ParseRustcDepInfo(e.file).tag = "Ok"
    /\ \A t \in ListedInputs(e) : PathExists(PathJoin(P_W, t))

ExpectedKeys ==
    UNION {{LinkTarget(PathJoin(P_W, t)) : t \in ListedInputs(e)} : e \in ListingFiles}
        \cup ctx.rs_file_args

C13_ReconciliationOrderIndependent ==
    /\ [](resolved.tag = "Ok" =>
            /\ DOMAIN resolved.val = ExpectedKeys
            /\ \A p \in DOMAIN resolved.val : resolved.val[p] = 0
            /\ \A e \in ListingFiles : ListingIsSound(e))
    /\ [](resolved.tag = "Err" => \E e \in ListingFiles : ~ListingIsSound(e))
    /\ []((mpc = "walk" /\ walk_dirs = {} /\ walk_ents = {}) =>
            DOMAIN hm \cup ctx.rs_file_args = ExpectedKeys)
    /\ [](mpc \in {"walk", "merge"} => \A p \in DOMAIN hm : hm[p] = 0)
    /\ [][\A e \in walk_ents \ walk_ents' :
            (\E r \in parsed : r.path = e.path) => hm' = hm]_vars

\* A map was returned although the listing file of /t/1/n was met twice, once
\* from /t/1 and once from /t/1/n.
C13_Witness ==
    /\ resolved.tag = "Ok"
    /\ {T1, N1} \subseteq ctx.out_dir_args
    /\ Cardinality(DOMAIN resolved.val) >= 3
    /\ \E e \in ListingFiles : Cardinality(ListedInputs(e)) = 2

\* C14: every turn of the scan loop adds one to the count of its file when
\* the file is a key of the map, whether or not the file parses, and changes
\* nothing else in the map; so a key whose parse failed still ends with a
\* count >= 1 and no "never scanned" warning, the key set stays the one
\* resolve_rs_file_deps returned, and a key no package holds keeps count 0.
ClassifiedFiles ==
    UNION {FindRsFilesInDir(pack.root) \cup
           {LinkTarget(pack.targets[k].src_path) :
              k \in {n \in 1..Len(pack.targets) :
                       /\ pack.targets[n].src_path # NoSrcPath
                       /\ PathExists(pack.targets[n].src_path)}} :
           pack \in Packages}

ScanTurn == mpc = "scan" /\ queue # <<>>

C14_CountedBeforeParse ==
    /\ [][/\ ScanTurn =>
               /\ DOMAIN hm' = DOMAIN hm
               /\ \A p \in DOMAIN hm :
                    hm'[p] = IF p = Head(queue).path THEN hm[p] + 1 ELSE hm[p]
               /\ (Head(queue).path \in bad_src /\ allow_partial_results) =>
                    parse_warns' = Append(parse_warns, Head(queue).path)
          /\ mpc \in {"scan", "report", "done"} => DOMAIN hm' = DOMAIN hm
          /\ mpc \in {"report", "done"} => hm' = hm]_vars
    /\ [](resolved.tag = "Ok" =>
            /\ DOMAIN hm = DOMAIN resolved.val
            /\ \A p \in DOMAIN hm \ ClassifiedFiles : hm[p] = 0
            /\ \A n \in 1..Len(parse_warns) :
                 parse_warns[n] \in DOMAIN hm => hm[parse_warns[n]] >= 1)
    /\ [](Reported =>
            \A p \in DOMAIN hm \cap ClassifiedFiles :
                hm[p] >= 1 /\ CopiesIn(p, never_warns) = 0)

\* The report after a scan in which a file of the build failed to parse,
\* beside a file of the build that no package holds.
C14_Witness ==
    /\ Reported
    /\ \E n \in 1..Len(parse_warns) :
         /\ parse_warns[n] \in DOMAIN hm
         /\ hm[parse_warns[n]] >= 1
         /\ CopiesIn(parse_warns[n], never_warns) = 0
    /\ \E p \in DOMAIN hm \ ClassifiedFiles : CopiesIn(p, never_warns) = 1

\* C15: for every file of a package, the growth of its count (when it is a
\* key of the map), the number of copies of each of its Findings in the sink
\* and the number of its parses all equal the number of records the
\* classifier emitted for it and the scan has consumed: 1 for a file that is
\* no target's entry path, k for the canonical entry path of k targets.
RecordsFor(pack, p) ==
    IF TargetsAt(pack, p) # {} THEN Cardinality(TargetsAt(pack, p))
    ELSE IF p \in FindRsFilesInDir(pack.root) THEN 1 ELSE 0

RECURSIVE RecordsIn(_, _)
RecordsIn(packs, p) ==
    IF packs = {} THEN 0
    ELSE LET pack == CHOOSE x \in packs : TRUE
         IN  RecordsFor(pack, p) + RecordsIn(packs \ {pack}, p)

Waiting(p) == Cardinality({n \in 1..Len(queue) : queue[n].path = p})

Consumed(p) == RecordsIn(Packages \ packs_left, p) - Waiting(p)

Written(p, item) ==
    Cardinality({n \in 1..Len(sink) : sink[n].path = p /\ sink[n].item = item})

Rejected(p) == Cardinality({n \in 1..Len(parse_warns) : parse_warns[n] = p})

ItemsOf(p) == {UnsafeItemsOf(p)[k] : k \in 1..Len(UnsafeItemsOf(p))}

C15_CountsEqualRecords ==
    /\ [](\A p \in Files :
            /\ Consumed(p) >= 0
            /\ p \in DOMAIN hm => hm[p] = Consumed(p)
            /\ p \notin bad_src =>
                 /\ \A item \in ItemsOf(p) : Written(p, item) = Consumed(p)
                 /\ Rejected(p) = 0
            /\ p \in bad_src =>
                 /\ \A n \in 1..Len(sink) : sink[n].path # p
                 /\ outcome # "panic" => Rejected(p) = Consumed(p))
    /\ [](mpc = "report" =>
            \A p \in Files : Consumed(p) = RecordsIn(Packages, p))
    /\ [][ScanTurn => queue' = Tail(queue) /\ packs_left' = packs_left]_vars

\* The scan is over: /w/a.rs, entry path of the library target and (through
\* the link /w/l.rs) of a binary target, has count 2 and each of its Findings
\* twice in the sink; /w/e.rs has count 1 and its Finding once.
C15_Witness ==
    /\ mpc = "report"
    /\ RecordsIn(Packages, PathJoin(P_W, A_RS)) = 2
    /\ PathJoin(P_W, A_RS) \in DOMAIN hm
    /\ hm[PathJoin(P_W, A_RS)] = 2
    /\ \A item \in ItemsOf(PathJoin(P_W, A_RS)) : Written(PathJoin(P_W, A_RS), item) = 2
    /\ PathJoin(P_W, E_RS) \in DOMAIN hm
    /\ hm[PathJoin(P_W, E_RS)] = 1
    /\ Written(PathJoin(P_W, E_RS), "block") = 1

====
